---- MODULE Spec2Model ----
(***************************************************************************)
(* The bounded concurrent task-processing core of file-analytics:          *)
(*   concurrency.StatefulPool  (src/internal/concurrency/stateful.go)      *)
(*   worker.Pool               (src/internal/api/server.go, package worker)*)
(* One pool is modelled; `kind` says which of the two implementations it   *)
(* is.  Goroutines are modelled by program counters: one per Submit call,  *)
(* one per worker, one for the caller of Stop and one for the consumer of  *)
(* Results().  A Go select is one atomic step that picks any ready case.   *)
(***************************************************************************)
EXTENDS Integers, Sequences, FiniteSets, TLC

\* ---------------------------------------------------------------- bounds
NumWorkers == 2      \* `workers` argument of NewStatefulPool / NewPool
QueueSize == 1       \* `queueSize` argument: capacity of tasks and results
MaxTasks == 2        \* number of Submit calls the clients make
MaxPhantom == 1      \* cap on receives from the closed, empty tasks channel

MaxTime == 3         \* ticks the wall clock is followed for
Size == 2            \* `size` argument of processor.NewWorkerPool
MaxRequests == 5     \* number of WorkerPool.Submit calls the clients make
FewRequests == 2     \* the same, where the request queue need not fill up
NumCallers == 2      \* goroutines calling the MetricsCollector concurrently
MaxCalls == 3        \* calls they make in all
MaxDuration == 4     \* longest duration passed to AddDuration

\* processTask sleeps 100 ms: one tick of the clock
ProcessTicks == 1
\* the rateLimit argument of the rate limiting test, 200 ms, in ticks
RateLimitTicks == 2

Workers == 0 .. (NumWorkers - 1)
Tasks == 1 .. MaxTasks
WPWorkers == 0 .. (Size - 1)
Callers == 1 .. NumCallers
\* The durations passed to AddDuration: elapsed times.
Durations == {0, 1, MaxDuration}
Requests == 1 .. MaxRequests

\* The zero value a receive from a closed, empty channel yields.
NilTask == 0
\* The worker's local `task` variable before any receive.
NoTask == -1

\* Task.Process() of task t returns a non-nil error.
Fails(t) == t % 2 = 0

VARIABLES
  kind,            \* "stateful" | "worker"
  started,         \* Start() has launched the workers
  cancelled,       \* ctx.Done() is closed
  tasks,           \* buffered channel p.tasks: the queued task ids
  tasksClosed,     \* close(p.tasks) happened
  results,         \* buffered channel p.results
  resultsClosed,   \* close(p.results) happened
  rateLimiter,     \* number of permits in the p.rateLimiter channel
  wg,              \* p.wg counter
  wpc,             \* worker -> program counter
  wtask,           \* worker -> the task in its local variable
  holds,           \* worker -> it received a permit it has not sent back
  workCount,       \* worker -> StatefulWorker.WorkCount
  sub,             \* task -> state of its Submit call, for the Submit calls
                   \* the clients make
  calledAfterStop, \* task -> Submit was called after Stop() had returned
  stopPc,          \* position of the caller of Stop(): "idle", "cancel",
                   \* "wait", "closeResults", "done"; in a second call
                   \* "cancel2", "panic"
  cons,            \* consumer of Results(): "recv" | "closed" (it saw the close)
  recvCount,       \* task id (or NilTask) -> values received for it
  crashed,         \* an unrecovered panic ended the process
  \* a caller of StatefulPool.GetWorkerStats() or of worker.Pool.GetStats()
  statsPc,         \* "idle" | "reading" | "returned"; in GetStats the field
                   \* to fill in next, "queued" | "completed"
  stats,           \* the WorkerStats entries, or the Stats fields, filled in
                   \* so far
  statsN,          \* tasks accepted when it was called, all of them received
                   \* by then (-1 otherwise)
  \* wall clock, in ticks of the task processing time
  now,
  lastWork,        \* per StatefulWorker: LastWork (-1: zero time)
  \* processor.WorkerPool
  wpStarted,       \* Start(ctx) has launched the workers
  ctxDone,         \* the context passed to Start is cancelled
  requests,        \* p.requests: sequence of request ids, capacity Size * 2
  requestsClosed,
  doneClosed,      \* close(p.done) has happened
  errors,          \* number of errors buffered in p.errors
  wppc,            \* per worker: position in worker()
  wpreq,           \* per worker: the request it dequeued
  wpsub,           \* per request: state of its Submit call
  responseChan,    \* per request: results buffered in its ResponseChan
  responseClosed,  \* per request: its ResponseChan is closed
  received,        \* per request: results its submitter has received
  wpStopPc,        \* "idle" | "wait" | "done"
  wpCrashed,       \* an unrecovered panic ended the process
  \* monitor.MetricsCollector and its callers
  mProcessed,      \* m.processed
  mErrors,         \* m.errors
  mDuration,       \* m.duration
  mpc,             \* per caller: "idle", inside a call ("P", "E", "D") or
                   \* past its atomic Add ("retP", "retE", "retD")
  marg,            \* per caller: the d of its AddDuration call
  mCalls,          \* calls made so far
  doneP,           \* completed IncrementProcessed calls
  doneE,           \* completed IncrementErrors calls
  doneD,           \* sum of the d of the completed AddDuration calls
  gmPc,            \* GetMetrics: "idle" | "errors" | "duration" | "returned"
  gmProcessed,     \* its named results
  gmErrors,
  gmAvg,
  gmBase,          \* the counters when GetMetrics was called
  \* constructor argument of the pool
  queueSize,       \* capacity of p.tasks and of p.results
  \* order of the Submit calls
  returnedBefore   \* per task: the tasks whose Submit had returned nil when
                   \* its own Submit was called

poolVars == <<kind, started, cancelled, tasks, tasksClosed, results,
              resultsClosed, rateLimiter, wg, wpc, wtask, holds, workCount,
              sub, calledAfterStop, stopPc, cons, recvCount, crashed>>

statsVars == <<statsPc, stats, statsN>>

timeVars == <<now, lastWork>>

wpVars == <<wpStarted, ctxDone, requests, requestsClosed, doneClosed, errors,
            wppc, wpreq, wpsub, responseChan, responseClosed, received,
            wpStopPc, wpCrashed>>

\* What the operations of StatefulPool and worker.Pool leave alone.
metricsVars == <<mProcessed, mErrors, mDuration, mpc, marg, mCalls, doneP,
                 doneE, doneD, gmPc, gmProcessed, gmErrors, gmAvg, gmBase>>

orderVars == <<queueSize, returnedBefore>>

\* What the operations of StatefulPool and worker.Pool leave alone.
auxVars == <<statsVars, timeVars, wpVars, metricsVars, orderVars>>

vars == <<poolVars, auxVars>>

chanVars == <<tasks, tasksClosed, results, resultsClosed, rateLimiter>>
workerVars == <<wg, wpc, wtask, holds, workCount>>
clientVars == <<sub, calledAfterStop>>
consVars == <<cons, recvCount>>

\* ------------------------------------------------------------ constructor
\* The pool as constructed with queue size q, and clients that will make the
\* Submit calls of T.
InitFor(q, T) ==
  /\ kind \in {"stateful", "worker"}
  /\ queueSize = q
  /\ returnedBefore = [t \in T |-> {}]
  /\ started = FALSE
  /\ cancelled = FALSE
  /\ tasks = <<>>
  /\ tasksClosed = FALSE
  /\ results = <<>>
  /\ resultsClosed = FALSE
  /\ rateLimiter = NumWorkers
  /\ wg = 0
  /\ wpc = [w \in Workers |-> "new"]
  /\ wtask = [w \in Workers |-> NoTask]
  /\ holds = [w \in Workers |-> FALSE]
  /\ workCount = [w \in Workers |-> 0]
  /\ sub = [t \in T |-> "idle"]
  /\ calledAfterStop = [t \in T |-> FALSE]
  /\ stopPc = "idle"
  /\ cons = "recv"
  /\ recvCount = [v \in {NilTask} \cup T |-> 0]
  /\ crashed = FALSE
  /\ statsPc = "idle"
  /\ stats = <<>>
  /\ statsN = -1
  /\ now = 0
  /\ lastWork = [w \in Workers |-> -1]
  /\ wpStarted = FALSE
  /\ ctxDone = FALSE
  /\ requests = <<>>
  /\ requestsClosed = FALSE
  /\ doneClosed = FALSE
  /\ errors = 0
  /\ wppc = [w \in WPWorkers |-> "new"]
  /\ wpreq = [w \in WPWorkers |-> NoTask]
  /\ wpsub = [r \in Requests |-> "idle"]
  /\ responseChan = [r \in Requests |-> 0]
  /\ responseClosed = [r \in Requests |-> FALSE]
  /\ received = [r \in Requests |-> 0]
  /\ wpStopPc = "idle"
  /\ wpCrashed = FALSE
  /\ mProcessed = 0
  /\ mErrors = 0
  /\ mDuration = 0
  /\ mpc = [c \in Callers |-> "idle"]
  /\ marg = [c \in Callers |-> 0]
  /\ mCalls = 0
  /\ doneP = 0
  /\ doneE = 0
  /\ doneD = 0
  /\ gmPc = "idle"
  /\ gmProcessed = 0
  /\ gmErrors = 0
  /\ gmAvg = 0
  /\ gmBase = <<0, 0, 0>>

InitWith(q) == InitFor(q, Tasks)

\* NewStatefulPool(NumWorkers, QueueSize, d) / NewPool(NumWorkers, QueueSize)
Init == InitWith(QueueSize)

\* ------------------------------------------------------------------ Start
Start ==
  /\ ~crashed
  /\ ~started
  /\ started' = TRUE
  /\ wg' = wg + NumWorkers
  /\ wpc' = [w \in Workers |-> IF kind = "stateful" THEN "outer" ELSE "range"]
  /\ UNCHANGED <<auxVars, kind, cancelled, chanVars, wtask, holds, workCount,
                 clientVars, stopPc, consVars, crashed>>

\* ----------------------------------------------------------------- Submit
\* Task ids number the Submit calls in the order in which they are made; the
\* calls themselves run concurrently.
SubmitCallCore(t) ==
  /\ ~crashed
  /\ sub[t] = "idle"
  /\ \A u \in Tasks : u < t => sub[u] # "idle"
  /\ sub' = [sub EXCEPT ![t] = "select"]
  /\ calledAfterStop' = [calledAfterStop EXCEPT ![t] = (stopPc = "done")]
  /\ UNCHANGED <<kind, started, cancelled, chanVars, workerVars, stopPc,
                 consVars, crashed>>

SubmitCall(t) == SubmitCallCore(t) /\ UNCHANGED auxVars

\* the send taken although the queue has no room left
SubmitSendUnbounded(t) ==
  /\ ~crashed
  /\ sub[t] = "select"
  /\ ~tasksClosed
  /\ tasks' = Append(tasks, t)
  /\ sub' = [sub EXCEPT ![t] = IF cancelled THEN "okLate" ELSE "ok"]
  /\ UNCHANGED <<auxVars, kind, started, cancelled, tasksClosed, results, resultsClosed,
                 rateLimiter, workerVars, calledAfterStop, stopPc, consVars,
                 crashed>>

\* case p.tasks <- task: return nil
SubmitSend(t) ==
  /\ ~crashed
  /\ sub[t] = "select"
  /\ ~tasksClosed
  /\ Len(tasks) < queueSize
  /\ tasks' = Append(tasks, t)
  /\ sub' = [sub EXCEPT ![t] = IF cancelled THEN "okLate" ELSE "ok"]
  /\ UNCHANGED <<auxVars, kind, started, cancelled, tasksClosed, results, resultsClosed,
                 rateLimiter, workerVars, calledAfterStop, stopPc, consVars,
                 crashed>>

\* case p.tasks <- task, with p.tasks closed: the send panics
SubmitPanic(t) ==
  /\ ~crashed
  /\ sub[t] = "select"
  /\ tasksClosed
  /\ sub' = [sub EXCEPT ![t] = "panic"]
  /\ crashed' = TRUE
  /\ UNCHANGED <<auxVars, kind, started, cancelled, chanVars, workerVars,
                 calledAfterStop, stopPc, consVars>>

\* case <-p.ctx.Done(): return p.ctx.Err()
SubmitCancelled(t) ==
  /\ ~crashed
  /\ sub[t] = "select"
  /\ cancelled
  /\ sub' = [sub EXCEPT ![t] = "err"]
  /\ UNCHANGED <<auxVars, kind, started, cancelled, chanVars, workerVars,
                 calledAfterStop, stopPc, consVars, crashed>>

\* ------------------------------------------------------------------- Stop
StopCancel ==
  /\ ~crashed
  /\ started
  /\ stopPc = "idle"
  /\ cancelled' = TRUE
  /\ stopPc' = "cancel"
  /\ UNCHANGED <<auxVars, kind, started, chanVars, workerVars, clientVars, consVars,
                 crashed>>

\* Stop without its close(p.tasks)
StopCloseTasksSkipped ==
  /\ ~crashed
  /\ stopPc = "cancel"
  /\ stopPc' = "wait"
  /\ UNCHANGED <<auxVars, kind, started, cancelled, chanVars, workerVars, clientVars,
                 consVars, crashed>>

\* close(p.tasks)
StopCloseTasks ==
  /\ ~crashed
  /\ stopPc = "cancel"
  /\ tasksClosed' = TRUE
  /\ stopPc' = "wait"
  /\ UNCHANGED <<auxVars, kind, started, cancelled, tasks, results, resultsClosed,
                 rateLimiter, workerVars, clientVars, consVars, crashed>>

\* A Stop that goes on to close(p.results) without waiting for the workers:
\* the variant C14 is checked against.
StopWithoutWait ==
  /\ ~crashed
  /\ stopPc = "wait"
  /\ stopPc' = "closeResults"
  /\ UNCHANGED <<auxVars, kind, started, cancelled, chanVars, workerVars, clientVars,
                 consVars, crashed>>

StopWait ==
  /\ ~crashed
  /\ stopPc = "wait"
  /\ wg = 0
  /\ stopPc' = "closeResults"
  /\ UNCHANGED <<auxVars, kind, started, cancelled, chanVars, workerVars, clientVars,
                 consVars, crashed>>

StopCloseResults ==
  /\ ~crashed
  /\ stopPc = "closeResults"
  /\ resultsClosed' = TRUE
  /\ stopPc' = "done"
  /\ UNCHANGED <<auxVars, kind, started, cancelled, tasks, tasksClosed, results,
                 rateLimiter, workerVars, clientVars, consVars, crashed>>

\* ------------------------------------------------- StatefulPool.runWorker
\* Values that came out of the closed, empty tasks channel so far.
PhantomCount ==
  Cardinality({w \in Workers : wtask[w] = NilTask})
  + Cardinality({i \in 1 .. Len(results) : results[i].task = NilTask})
  + recvCount[NilTask]

\* An exit that sends a permit back although the worker took none (a release
\* deferred for every return): the variant C11 is checked against.
StatefulOuterDoneReleasing(w) ==
  /\ ~crashed
  /\ kind = "stateful"
  /\ wpc[w] = "outer"
  /\ cancelled
  /\ rateLimiter < NumWorkers
  /\ rateLimiter' = rateLimiter + 1
  /\ wpc' = [wpc EXCEPT ![w] = "exited"]
  /\ wg' = wg - 1
  /\ UNCHANGED <<auxVars, kind, started, cancelled, tasks, tasksClosed, results,
                 resultsClosed, wtask, holds, workCount, clientVars, stopPc,
                 consVars, crashed>>

\* outer select, case <-p.ctx.Done(): return   (defer p.wg.Done())
StatefulOuterDone(w) ==
  /\ ~crashed
  /\ kind = "stateful"
  /\ wpc[w] = "outer"
  /\ cancelled
  /\ wpc' = [wpc EXCEPT ![w] = "exited"]
  /\ wg' = wg - 1
  /\ UNCHANGED <<auxVars, kind, started, cancelled, chanVars, wtask, holds, workCount,
                 clientVars, stopPc, consVars, crashed>>

\* outer select, case <-p.rateLimiter:
StatefulAcquire(w) ==
  /\ ~crashed
  /\ kind = "stateful"
  /\ wpc[w] = "outer"
  /\ rateLimiter > 0
  /\ rateLimiter' = rateLimiter - 1
  /\ holds' = [holds EXCEPT ![w] = TRUE]
  /\ wpc' = [wpc EXCEPT ![w] = "inner"]
  /\ UNCHANGED <<auxVars, kind, started, cancelled, tasks, tasksClosed, results,
                 resultsClosed, wg, wtask, workCount, clientVars, stopPc,
                 consVars, crashed>>

\* WorkCount++ left out of runWorker
StatefulRecvTaskUncounted(w) ==
  /\ ~crashed
  /\ kind = "stateful"
  /\ wpc[w] = "inner"
  /\ Len(tasks) > 0
  /\ wtask' = [wtask EXCEPT ![w] = Head(tasks)]
  /\ tasks' = Tail(tasks)
  /\ wpc' = [wpc EXCEPT ![w] = "process"]
  /\ UNCHANGED <<kind, started, cancelled, tasksClosed, results, resultsClosed,
                 rateLimiter, wg, holds, workCount, clientVars, stopPc,
                 consVars, crashed>>

\* inner select, case task := <-p.tasks: a queued task; then, under the
\* worker's own lock, worker.WorkCount++
StatefulRecvTaskCore(w) ==
  /\ ~crashed
  /\ kind = "stateful"
  /\ wpc[w] = "inner"
  /\ Len(tasks) > 0
  /\ wtask' = [wtask EXCEPT ![w] = Head(tasks)]
  /\ tasks' = Tail(tasks)
  /\ workCount' = [workCount EXCEPT ![w] = @ + 1]
  /\ wpc' = [wpc EXCEPT ![w] = "process"]
  /\ UNCHANGED <<kind, started, cancelled, tasksClosed, results, resultsClosed,
                 rateLimiter, wg, holds, clientVars, stopPc, consVars, crashed>>

StatefulRecvTask(w) == StatefulRecvTaskCore(w) /\ UNCHANGED auxVars

\* the zero value taken from the closed channel without WorkCount++
StatefulRecvClosedUncounted(w) ==
  /\ ~crashed
  /\ kind = "stateful"
  /\ wpc[w] = "inner"
  /\ Len(tasks) = 0
  /\ tasksClosed
  /\ PhantomCount < MaxPhantom
  /\ wtask' = [wtask EXCEPT ![w] = NilTask]
  /\ wpc' = [wpc EXCEPT ![w] = "process"]
  /\ UNCHANGED <<auxVars, kind, started, cancelled, chanVars, wg, holds, workCount,
                 clientVars, stopPc, consVars, crashed>>

\* inner select, case task := <-p.tasks: the channel is closed and empty, the
\* receive yields the zero value at once (the ok flag is not read); then
\* worker.WorkCount++ as for a task
StatefulRecvClosed(w) ==
  /\ ~crashed
  /\ kind = "stateful"
  /\ wpc[w] = "inner"
  /\ Len(tasks) = 0
  /\ tasksClosed
  /\ PhantomCount < MaxPhantom
  /\ wtask' = [wtask EXCEPT ![w] = NilTask]
  /\ workCount' = [workCount EXCEPT ![w] = @ + 1]
  /\ wpc' = [wpc EXCEPT ![w] = "process"]
  /\ UNCHANGED <<auxVars, kind, started, cancelled, chanVars, wg, holds, clientVars,
                 stopPc, consVars, crashed>>

\* inner select, case <-p.ctx.Done(): return   (the permit is not sent back)
StatefulInnerDone(w) ==
  /\ ~crashed
  /\ kind = "stateful"
  /\ wpc[w] = "inner"
  /\ cancelled
  /\ wpc' = [wpc EXCEPT ![w] = "exited"]
  /\ wg' = wg - 1
  /\ UNCHANGED <<auxVars, kind, started, cancelled, chanVars, wtask, holds, workCount,
                 clientVars, stopPc, consVars, crashed>>

\* result := p.processTask(worker, task)   (returns the task)
StatefulProcess(w) ==
  /\ ~crashed
  /\ kind = "stateful"
  /\ wpc[w] = "process"
  /\ wpc' = [wpc EXCEPT ![w] = "send"]
  /\ UNCHANGED <<auxVars, kind, started, cancelled, chanVars, wg, wtask, holds,
                 workCount, clientVars, stopPc, consVars, crashed>>

\* A publish that drops the result when the results channel is full (a
\* try-send) instead of waiting for room: the variant C9 is checked against.
StatefulSendOrDrop(w) ==
  /\ ~crashed
  /\ kind = "stateful"
  /\ wpc[w] = "send"
  /\ IF resultsClosed
       THEN crashed' = TRUE /\ UNCHANGED <<results, wpc>>
       ELSE /\ results' = IF Len(results) < queueSize
                            THEN Append(results,
                                        [task |-> wtask[w], err |-> FALSE])
                            ELSE results
            /\ wpc' = [wpc EXCEPT ![w] = "release"]
            /\ UNCHANGED crashed
  /\ UNCHANGED <<auxVars, kind, started, cancelled, tasks, tasksClosed, resultsClosed,
                 rateLimiter, wg, wtask, holds, workCount, clientVars, stopPc,
                 consVars>>

\* p.results <- result   (a blocking send; a send on a closed channel panics)
StatefulSend(w) ==
  /\ ~crashed
  /\ kind = "stateful"
  /\ wpc[w] = "send"
  /\ resultsClosed \/ Len(results) < queueSize
  /\ IF resultsClosed
       THEN crashed' = TRUE /\ UNCHANGED <<results, wpc>>
       ELSE /\ results' = Append(results, [task |-> wtask[w], err |-> FALSE])
            /\ wpc' = [wpc EXCEPT ![w] = "release"]
            /\ UNCHANGED crashed
  /\ UNCHANGED <<auxVars, kind, started, cancelled, tasks, tasksClosed, resultsClosed,
                 rateLimiter, wg, wtask, holds, workCount, clientVars, stopPc,
                 consVars>>

\* p.rateLimiter <- struct{}{}, then the next iteration of the for loop
StatefulRelease(w) ==
  /\ ~crashed
  /\ kind = "stateful"
  /\ wpc[w] = "release"
  /\ rateLimiter < NumWorkers
  /\ rateLimiter' = rateLimiter + 1
  /\ holds' = [holds EXCEPT ![w] = FALSE]
  /\ wtask' = [wtask EXCEPT ![w] = NoTask]
  /\ wpc' = [wpc EXCEPT ![w] = "outer"]
  /\ UNCHANGED <<auxVars, kind, started, cancelled, tasks, tasksClosed, results,
                 resultsClosed, wg, workCount, clientVars, stopPc, consVars,
                 crashed>>

\* ------------------------------------------------------ worker.Pool.worker
\* the task read without being taken out of the queue
PoolRangePeek(w) ==
  /\ ~crashed
  /\ kind = "worker"
  /\ wpc[w] = "range"
  /\ Len(tasks) > 0
  /\ wtask' = [wtask EXCEPT ![w] = Head(tasks)]
  /\ wpc' = [wpc EXCEPT ![w] = "select"]
  /\ UNCHANGED <<auxVars, kind, started, cancelled, tasks, tasksClosed, results,
                 resultsClosed, rateLimiter, wg, holds, workCount, clientVars,
                 stopPc, consVars, crashed>>

\* the newest queued task taken instead of the oldest
PoolRangeNewest(w) ==
  /\ ~crashed
  /\ kind = "worker"
  /\ wpc[w] = "range"
  /\ Len(tasks) > 0
  /\ wtask' = [wtask EXCEPT ![w] = tasks[Len(tasks)]]
  /\ tasks' = SubSeq(tasks, 1, Len(tasks) - 1)
  /\ wpc' = [wpc EXCEPT ![w] = "select"]
  /\ UNCHANGED <<auxVars, kind, started, cancelled, tasksClosed, results, resultsClosed,
                 rateLimiter, wg, holds, workCount, clientVars, stopPc,
                 consVars, crashed>>

\* for task := range p.tasks: a queued task
PoolRange(w) ==
  /\ ~crashed
  /\ kind = "worker"
  /\ wpc[w] = "range"
  /\ Len(tasks) > 0
  /\ wtask' = [wtask EXCEPT ![w] = Head(tasks)]
  /\ tasks' = Tail(tasks)
  /\ wpc' = [wpc EXCEPT ![w] = "select"]
  /\ UNCHANGED <<auxVars, kind, started, cancelled, tasksClosed, results, resultsClosed,
                 rateLimiter, wg, holds, workCount, clientVars, stopPc,
                 consVars, crashed>>

\* for task := range p.tasks: closed and empty, the loop ends (defer wg.Done())
PoolRangeClosed(w) ==
  /\ ~crashed
  /\ kind = "worker"
  /\ wpc[w] = "range"
  /\ Len(tasks) = 0
  /\ tasksClosed
  /\ wpc' = [wpc EXCEPT ![w] = "exited"]
  /\ wg' = wg - 1
  /\ UNCHANGED <<auxVars, kind, started, cancelled, chanVars, wtask, holds, workCount,
                 clientVars, stopPc, consVars, crashed>>

\* select, case <-p.ctx.Done(): return   (the dequeued task stays in `task`)
PoolSelectDone(w) ==
  /\ ~crashed
  /\ kind = "worker"
  /\ wpc[w] = "select"
  /\ cancelled
  /\ wpc' = [wpc EXCEPT ![w] = "exited"]
  /\ wg' = wg - 1
  /\ UNCHANGED <<auxVars, kind, started, cancelled, chanVars, wtask, holds, workCount,
                 clientVars, stopPc, consVars, crashed>>

\* A select that goes on to Process() without having received a permit: the
\* variant C10 is checked against.
PoolProceedWithoutPermit(w) ==
  /\ ~crashed
  /\ kind = "worker"
  /\ wpc[w] = "select"
  /\ wpc' = [wpc EXCEPT ![w] = "process"]
  /\ UNCHANGED <<auxVars, kind, started, cancelled, chanVars, wg, wtask, holds,
                 workCount, clientVars, stopPc, consVars, crashed>>

\* select, case <-p.rateLimiter:
PoolAcquire(w) ==
  /\ ~crashed
  /\ kind = "worker"
  /\ wpc[w] = "select"
  /\ rateLimiter > 0
  /\ rateLimiter' = rateLimiter - 1
  /\ holds' = [holds EXCEPT ![w] = TRUE]
  /\ wpc' = [wpc EXCEPT ![w] = "process"]
  /\ UNCHANGED <<auxVars, kind, started, cancelled, tasks, tasksClosed, results,
                 resultsClosed, wg, wtask, workCount, clientVars, stopPc,
                 consVars, crashed>>

\* err := task.Process()
PoolProcess(w) ==
  /\ ~crashed
  /\ kind = "worker"
  /\ wpc[w] = "process"
  /\ wpc' = [wpc EXCEPT ![w] = "send"]
  /\ UNCHANGED <<auxVars, kind, started, cancelled, chanVars, wg, wtask, holds,
                 workCount, clientVars, stopPc, consVars, crashed>>

\* A publish that sends nil whatever Process() returned: the variant C16 is
\* checked against.
PoolSendNil(w) ==
  /\ ~crashed
  /\ kind = "worker"
  /\ wpc[w] = "send"
  /\ resultsClosed \/ Len(results) < queueSize
  /\ IF resultsClosed
       THEN crashed' = TRUE /\ UNCHANGED <<results, wpc>>
       ELSE /\ results' = Append(results, [task |-> wtask[w], err |-> FALSE])
            /\ wpc' = [wpc EXCEPT ![w] = "release"]
            /\ UNCHANGED crashed
  /\ UNCHANGED <<auxVars, kind, started, cancelled, tasks, tasksClosed, resultsClosed,
                 rateLimiter, wg, wtask, holds, workCount, clientVars, stopPc,
                 consVars>>

\* p.results <- err   (a blocking send; a send on a closed channel panics)
PoolSend(w) ==
  /\ ~crashed
  /\ kind = "worker"
  /\ wpc[w] = "send"
  /\ resultsClosed \/ Len(results) < queueSize
  /\ IF resultsClosed
       THEN crashed' = TRUE /\ UNCHANGED <<results, wpc>>
       ELSE /\ results' = Append(results,
                                 [task |-> wtask[w], err |-> Fails(wtask[w])])
            /\ wpc' = [wpc EXCEPT ![w] = "release"]
            /\ UNCHANGED crashed
  /\ UNCHANGED <<auxVars, kind, started, cancelled, tasks, tasksClosed, resultsClosed,
                 rateLimiter, wg, wtask, holds, workCount, clientVars, stopPc,
                 consVars>>

\* the permit kept: the worker goes back to the range loop without the send
PoolReleaseSkipped(w) ==
  /\ ~crashed
  /\ kind = "worker"
  /\ wpc[w] = "release"
  /\ holds' = [holds EXCEPT ![w] = FALSE]
  /\ wtask' = [wtask EXCEPT ![w] = NoTask]
  /\ wpc' = [wpc EXCEPT ![w] = "range"]
  /\ UNCHANGED <<auxVars, kind, started, cancelled, chanVars, wg, workCount,
                 clientVars, stopPc, consVars, crashed>>

\* p.rateLimiter <- struct{}{}, then the next iteration of the range loop
PoolRelease(w) ==
  /\ ~crashed
  /\ kind = "worker"
  /\ wpc[w] = "release"
  /\ rateLimiter < NumWorkers
  /\ rateLimiter' = rateLimiter + 1
  /\ holds' = [holds EXCEPT ![w] = FALSE]
  /\ wtask' = [wtask EXCEPT ![w] = NoTask]
  /\ wpc' = [wpc EXCEPT ![w] = "range"]
  /\ UNCHANGED <<auxVars, kind, started, cancelled, tasks, tasksClosed, results,
                 resultsClosed, wg, workCount, clientVars, stopPc, consVars,
                 crashed>>

\* ------------------------------------------------- the consumer of Results()
\* v := <-pool.Results(), a value
Receive ==
  /\ ~crashed
  /\ cons = "recv"
  /\ Len(results) > 0
  /\ recvCount' = [recvCount EXCEPT ![Head(results).task] = @ + 1]
  /\ results' = Tail(results)
  /\ UNCHANGED <<auxVars, kind, started, cancelled, tasks, tasksClosed, resultsClosed,
                 rateLimiter, workerVars, clientVars, stopPc, cons, crashed>>

\* the receive that reports the channel closed: the "read until closed" loop ends
ReceiveClosed ==
  /\ ~crashed
  /\ cons = "recv"
  /\ Len(results) = 0
  /\ resultsClosed
  /\ cons' = "closed"
  /\ UNCHANGED <<auxVars, kind, started, cancelled, chanVars, workerVars, clientVars,
                 stopPc, recvCount, crashed>>

\* ---------------------------------------------------------- specifications
WorkerStep(w) ==
  \/ StatefulOuterDone(w)
  \/ StatefulAcquire(w)
  \/ StatefulRecvTask(w)
  \/ StatefulRecvClosed(w)
  \/ StatefulInnerDone(w)
  \/ StatefulProcess(w)
  \/ StatefulSend(w)
  \/ StatefulRelease(w)
  \/ PoolRange(w)
  \/ PoolRangeClosed(w)
  \/ PoolSelectDone(w)
  \/ PoolAcquire(w)
  \/ PoolProcess(w)
  \/ PoolSend(w)
  \/ PoolRelease(w)

SubmitStep(t) ==
  \/ SubmitCall(t)
  \/ SubmitSend(t)
  \/ SubmitPanic(t)
  \/ SubmitCancelled(t)

StopStep ==
  \/ StopCancel
  \/ StopCloseTasks
  \/ StopWait
  \/ StopCloseResults

Next ==
  \/ Start
  \/ \E t \in Tasks : SubmitStep(t)
  \/ StopStep
  \/ \E w \in Workers : WorkerStep(w)
  \/ Receive
  \/ ReceiveClosed

Spec == Init /\ [][Next]_vars

\* The goroutine scheduler runs every runnable goroutine (weak fairness of each
\* goroutine's steps); a select with several ready cases picks among them at
\* random, so a case that is ready again and again is eventually picked
\* (strong fairness of the ctx.Done() cases).  Nothing makes a client call
\* Submit or Stop.
SubmitResolve(t) == SubmitSend(t) \/ SubmitPanic(t) \/ SubmitCancelled(t)

StopRest == StopCloseTasks \/ StopWait \/ StopCloseResults

Fairness ==
  /\ WF_vars(Start)
  /\ \A t \in Tasks : WF_vars(SubmitResolve(t))
  /\ WF_vars(StopRest)
  /\ \A w \in Workers : WF_vars(WorkerStep(w))
  /\ \A w \in Workers : SF_vars(StatefulOuterDone(w) \/ StatefulInnerDone(w)
                                \/ PoolSelectDone(w))
  /\ WF_vars(Receive \/ ReceiveClosed)

\* The pool with a consumer that keeps receiving, under fair scheduling.
FairSpec == Init /\ [][Next]_vars /\ Fairness

\* The pool on which Stop() is never invoked, with a consumer that keeps
\* receiving, under fair scheduling.
NextRunning ==
  \/ Start
  \/ \E t \in Tasks : SubmitCall(t) \/ SubmitSend(t)
  \/ \E w \in Workers :
       \/ StatefulAcquire(w)
       \/ StatefulRecvTask(w)
       \/ StatefulProcess(w)
       \/ StatefulSend(w)
       \/ StatefulRelease(w)
       \/ PoolRange(w)
       \/ PoolAcquire(w)
       \/ PoolProcess(w)
       \/ PoolSend(w)
       \/ PoolRelease(w)
  \/ Receive

RunningSpec == Init /\ [][NextRunning]_vars /\ Fairness

\* ------------------------------------------ StatefulPool.GetWorkerStats
\* stats := make([]WorkerStats, len(p.workers)); the call is made once, at any
\* moment of the pool's life
GetStatsCall ==
  /\ ~crashed
  /\ kind = "stateful"
  /\ statsPc = "idle"
  /\ statsPc' = "reading"
  /\ stats' = <<>>
  /\ statsN' = IF /\ stopPc = "idle"
                  /\ \A t \in Tasks :
                       sub[t] \in {"ok", "okLate"} => recvCount[t] > 0
               THEN Cardinality({t \in Tasks : sub[t] \in {"ok", "okLate"}})
               ELSE -1
  /\ UNCHANGED <<poolVars, timeVars, wpVars, metricsVars, orderVars>>

\* one iteration of the loop: the worker's fields read under its RLock; the
\* lock is released before the next worker is read
GetStatsRead ==
  /\ ~crashed
  /\ statsPc = "reading"
  /\ LET w == Len(stats)
     IN  stats' = Append(stats, [ID |-> w, WorkCount |-> workCount[w]])
  /\ statsPc' = IF Len(stats) + 1 = NumWorkers THEN "returned" ELSE "reading"
  /\ UNCHANGED <<poolVars, statsN, timeVars, wpVars, metricsVars, orderVars>>

\* The pool on which Stop() is never invoked, with a consumer that receives and
\* a caller of GetWorkerStats().
NextStats ==
  \/ NextRunning
  \/ GetStatsCall
  \/ GetStatsRead

StatsSpec == Init /\ [][NextStats]_vars

\* The whole life of the pool, Stop() included, with a caller of
\* GetWorkerStats().
NextStopStats ==
  \/ Next
  \/ GetStatsCall
  \/ GetStatsRead

StopStatsSpec == Init /\ [][NextStopStats]_vars

\* ------------------------------------------------- worker.Pool.GetStats
\* GetStats builds its Stats value field by field; the pool runs on between
\* the reads.  The call is made once, at any moment of the pool's life.
\* ActiveWorkers: p.workers - len(p.rateLimiter)
PoolGetStatsActive ==
  /\ ~crashed
  /\ kind = "worker"
  /\ statsPc = "idle"
  /\ stats' = [ActiveWorkers |-> NumWorkers - rateLimiter]
  /\ statsPc' = "queued"
  /\ UNCHANGED <<poolVars, statsN, timeVars, wpVars, metricsVars, orderVars>>

\* QueuedTasks: len(p.tasks)
PoolGetStatsQueued ==
  /\ ~crashed
  /\ kind = "worker"
  /\ statsPc = "queued"
  /\ stats' = [ActiveWorkers |-> stats.ActiveWorkers, QueuedTasks |-> Len(tasks)]
  /\ statsPc' = "completed"
  /\ UNCHANGED <<poolVars, statsN, timeVars, wpVars, metricsVars, orderVars>>

\* CompletedTasks: cap(p.tasks) - len(p.tasks); return
PoolGetStatsCompleted ==
  /\ ~crashed
  /\ kind = "worker"
  /\ statsPc = "completed"
  /\ stats' = [ActiveWorkers |-> stats.ActiveWorkers,
               QueuedTasks |-> stats.QueuedTasks,
               CompletedTasks |-> queueSize - Len(tasks)]
  /\ statsPc' = "returned"
  /\ UNCHANGED <<poolVars, statsN, timeVars, wpVars, metricsVars, orderVars>>

PoolGetStatsStep ==
  \/ PoolGetStatsActive
  \/ PoolGetStatsQueued
  \/ PoolGetStatsCompleted

\* The whole life of the pool, Stop() included, with a caller of GetStats().
NextPoolStats ==
  \/ Next
  \/ PoolGetStatsStep

PoolStatsSpec == Init /\ [][NextPoolStats]_vars

\* ------------------------------------------------- a single client
\* One goroutine makes the Submit calls, one after the other: it calls Submit
\* again once the previous call has returned.
ClientSubmitCall(t) ==
  /\ \A u \in Tasks : u < t => sub[u] \notin {"idle", "select"}
  /\ SubmitCall(t)

\* The whole life of the pool with one submitting client, a goroutine that
\* calls Stop() at any moment and the consumer of Results().
NextSingleClient ==
  \/ Start
  \/ \E t \in Tasks :
       \/ ClientSubmitCall(t)
       \/ SubmitSend(t)
       \/ SubmitPanic(t)
       \/ SubmitCancelled(t)
  \/ StopStep
  \/ \E w \in Workers : WorkerStep(w)
  \/ Receive
  \/ ReceiveClosed

SingleClientSpec == Init /\ [][NextSingleClient]_vars

\* ------------------------------------------------- Stop() called again
\* The goroutine whose Stop() has returned calls Stop() once more.
\* p.cancel(): cancelling a cancelled context does nothing
StopAgainCancel ==
  /\ ~crashed
  /\ stopPc = "done"
  /\ cancelled' = TRUE
  /\ stopPc' = "cancel2"
  /\ UNCHANGED <<auxVars, kind, started, chanVars, workerVars, clientVars, consVars,
                 crashed>>

\* close(p.tasks): closing a closed channel panics; on an open one the call
\* goes on to p.wg.Wait()
StopAgainCloseTasks ==
  /\ ~crashed
  /\ stopPc = "cancel2"
  /\ crashed' = tasksClosed
  /\ tasksClosed' = TRUE
  /\ stopPc' = IF tasksClosed THEN "panic" ELSE "wait"
  /\ UNCHANGED <<auxVars, kind, started, cancelled, tasks, results, resultsClosed,
                 rateLimiter, workerVars, clientVars, consVars>>

\* The whole life of the pool with one submitting client, the consumer of
\* Results() and a goroutine that calls Stop() and, once that has returned,
\* Stop() again.
NextStopTwice ==
  \/ NextSingleClient
  \/ StopAgainCancel
  \/ StopAgainCloseTasks

StopTwiceSpec == Init /\ [][NextStopTwice]_vars

\* ------------------------------------------------- a client with a backlog
\* One client first submits n tasks, one Submit call after the other, and
\* only afterwards receives from Results() (the pattern of TestStatefulPool).
\* The client is followed until its last Submit call has returned: nobody
\* receives from Results() before that, and Stop() is not invoked.
\* What the pool can take in without anyone receiving: a full inbound queue,
\* one task with each worker, a full results queue.
BacklogCap == 2 * QueueSize + NumWorkers

MaxBacklog == BacklogCap + 1

InitBacklog == \E n \in 1 .. MaxBacklog : InitFor(QueueSize, 1 .. n)

\* the client calls Submit once its previous call has returned nil
BacklogSubmitCall(t) ==
  /\ t \in DOMAIN sub
  /\ \A u \in DOMAIN sub : u < t => sub[u] = "ok"
  /\ SubmitCall(t)

BacklogSubmitSend(t) ==
  /\ t \in DOMAIN sub
  /\ SubmitSend(t)

BacklogWorkerStep(w) ==
  \/ StatefulAcquire(w)
  \/ StatefulRecvTask(w)
  \/ StatefulProcess(w)
  \/ StatefulSend(w)
  \/ StatefulRelease(w)
  \/ PoolRange(w)
  \/ PoolAcquire(w)
  \/ PoolProcess(w)
  \/ PoolSend(w)
  \/ PoolRelease(w)

\* the client's loop of Submit calls
BacklogClientStep ==
  \E t \in 1 .. MaxBacklog : BacklogSubmitCall(t) \/ BacklogSubmitSend(t)

NextBacklog ==
  \/ Start
  \/ BacklogClientStep
  \/ \E w \in Workers : BacklogWorkerStep(w)

\* The scheduler runs every runnable goroutine: the client in its loop of
\* Submit calls, and the workers.
BacklogFairness ==
  /\ WF_vars(Start)
  /\ WF_vars(BacklogClientStep)
  /\ \A w \in Workers : WF_vars(BacklogWorkerStep(w))

BacklogSpec == InitBacklog /\ [][NextBacklog]_vars /\ BacklogFairness

\* ------------------------------------------------- order of the Submits
\* Submit is called: the calls that have already returned nil are noted
OrderedSubmitCall(t) ==
  /\ SubmitCallCore(t)
  /\ returnedBefore' =
       [returnedBefore EXCEPT ![t] = {u \in Tasks : sub[u] \in {"ok", "okLate"}}]
  /\ UNCHANGED <<statsVars, timeVars, wpVars, metricsVars, queueSize>>

\* The pool on which Stop() is never invoked, with queues that hold one
\* element more than QueueSize, so that tasks queue up behind one another.
NextOrder ==
  \/ Start
  \/ \E t \in Tasks : OrderedSubmitCall(t) \/ SubmitSend(t)
  \/ \E w \in Workers :
       \/ StatefulAcquire(w)
       \/ StatefulRecvTask(w)
       \/ StatefulProcess(w)
       \/ StatefulSend(w)
       \/ StatefulRelease(w)
       \/ PoolRange(w)
       \/ PoolAcquire(w)
       \/ PoolProcess(w)
       \/ PoolSend(w)
       \/ PoolRelease(w)
  \/ Receive

OrderSpec == InitWith(QueueSize + 1) /\ [][NextOrder]_vars

\* ------------------------------------------------- StatefulPool in time
\* worker.LastWork = time.Now() on taking a task
TimedRecvTask(w) ==
  /\ StatefulRecvTaskCore(w)
  /\ lastWork' = [lastWork EXCEPT ![w] = now]
  /\ UNCHANGED <<now, statsVars, wpVars, metricsVars, orderVars>>

\* processTask returns once its time.Sleep is over
TimedProcess(w) ==
  /\ now >= lastWork[w] + ProcessTicks
  /\ StatefulProcess(w)

\* time passes
Tick ==
  /\ now < MaxTime
  /\ now' = now + 1
  /\ UNCHANGED <<poolVars, statsVars, lastWork, wpVars, metricsVars,
                 orderVars>>

\* The StatefulPool of the rate limiting test: tasks are submitted and their
\* results received, Stop() is not invoked while they are processed.
NextTimed ==
  \/ Start
  \/ \E t \in Tasks : SubmitCall(t) \/ SubmitSend(t)
  \/ \E w \in Workers :
       \/ StatefulAcquire(w)
       \/ TimedRecvTask(w)
       \/ TimedProcess(w)
       \/ StatefulSend(w)
       \/ StatefulRelease(w)
  \/ Receive
  \/ Tick

TimedSpec == Init /\ [][NextTimed]_vars

\* -------------------------------------------------- processor.WorkerPool
\* (src/internal/processor/worker.go)  Requests are numbered in the order of
\* their Submit calls.
\* requests: make(chan WorkRequest, size*2)
ReqCap == Size * 2
\* errors: make(chan error, size)
ErrCap == Size

\* processor.Process of request r returns a non-nil error.
ProcessFails(r) == r % 2 = 0

wpOthers == <<poolVars, statsVars, timeVars, metricsVars, orderVars>>

\* Start(ctx): for i := 0; i < p.size; i++ { go p.worker(ctx, i) }
WPStart ==
  /\ ~wpCrashed
  /\ ~wpStarted
  /\ wpStarted' = TRUE
  /\ wppc' = [w \in WPWorkers |-> "range"]
  /\ UNCHANGED <<wpOthers, ctxDone, requests, requestsClosed, doneClosed,
                 errors, wpreq, wpsub, responseChan, responseClosed, received,
                 wpStopPc, wpCrashed>>

\* the owner of the context passed to Start cancels it
WPCancel ==
  /\ ~wpCrashed
  /\ ~ctxDone
  /\ ctxDone' = TRUE
  /\ UNCHANGED <<wpOthers, wpStarted, requests, requestsClosed, doneClosed,
                 errors, wppc, wpreq, wpsub, responseChan, responseClosed,
                 received, wpStopPc, wpCrashed>>

\* Submit: responseChan := make(chan models.ProcessResult, 1); enter the select
WPSubmitCall(r) ==
  /\ ~wpCrashed
  /\ wpsub[r] = "idle"
  /\ \A q \in Requests : q < r => wpsub[q] # "idle"
  /\ wpsub' = [wpsub EXCEPT ![r] = "select"]
  /\ UNCHANGED <<wpOthers, wpStarted, ctxDone, requests, requestsClosed,
                 doneClosed, errors, wppc, wpreq, responseChan, responseClosed,
                 received, wpStopPc, wpCrashed>>

\* select, case p.requests <- WorkRequest{...}: return responseChan, nil
WPSubmitSend(r) ==
  /\ ~wpCrashed
  /\ wpsub[r] = "select"
  /\ ~requestsClosed
  /\ Len(requests) < ReqCap
  /\ requests' = Append(requests, r)
  /\ wpsub' = [wpsub EXCEPT ![r] = "ok"]
  /\ UNCHANGED <<wpOthers, wpStarted, ctxDone, requestsClosed, doneClosed,
                 errors, wppc, wpreq, responseChan, responseClosed, received,
                 wpStopPc, wpCrashed>>

\* select, case p.requests <- ...: the channel is closed, the send panics
WPSubmitPanic(r) ==
  /\ ~wpCrashed
  /\ wpsub[r] = "select"
  /\ requestsClosed
  /\ wpsub' = [wpsub EXCEPT ![r] = "panic"]
  /\ wpCrashed' = TRUE
  /\ UNCHANGED <<wpOthers, wpStarted, ctxDone, requests, requestsClosed,
                 doneClosed, errors, wppc, wpreq, responseChan, responseClosed,
                 received, wpStopPc>>

\* select, case <-time.After(5 * time.Second): the queue stayed full
WPSubmitTimeout(r) ==
  /\ ~wpCrashed
  /\ wpsub[r] = "select"
  /\ ~requestsClosed
  /\ Len(requests) = ReqCap
  /\ wpsub' = [wpsub EXCEPT ![r] = "timeout"]
  /\ UNCHANGED <<wpOthers, wpStarted, ctxDone, requests, requestsClosed,
                 doneClosed, errors, wppc, wpreq, responseChan, responseClosed,
                 received, wpStopPc, wpCrashed>>

\* Stop: close(p.requests)
WPStopClose ==
  /\ ~wpCrashed
  /\ wpStopPc = "idle"
  /\ requestsClosed' = TRUE
  /\ wpStopPc' = "wait"
  /\ UNCHANGED <<wpOthers, wpStarted, ctxDone, requests, doneClosed, errors,
                 wppc, wpreq, wpsub, responseChan, responseClosed, received,
                 wpCrashed>>

\* Stop: <-p.done, then return
WPStopReturn ==
  /\ ~wpCrashed
  /\ wpStopPc = "wait"
  /\ doneClosed
  /\ wpStopPc' = "done"
  /\ UNCHANGED <<wpOthers, wpStarted, ctxDone, requests, requestsClosed,
                 doneClosed, errors, wppc, wpreq, wpsub, responseChan,
                 responseClosed, received, wpCrashed>>

\* the deferred function of worker(): if id == 0 { close(p.done) }
WPExit(w) ==
  /\ wppc' = [wppc EXCEPT ![w] = "exited"]
  /\ doneClosed' = IF w = 0 THEN TRUE ELSE doneClosed

\* the request read without being taken out of the queue
WPRangePeek(w) ==
  /\ ~wpCrashed
  /\ wppc[w] = "range"
  /\ Len(requests) > 0
  /\ wpreq' = [wpreq EXCEPT ![w] = Head(requests)]
  /\ wppc' = [wppc EXCEPT ![w] = "select"]
  /\ UNCHANGED <<wpOthers, wpStarted, ctxDone, requests, requestsClosed,
                 doneClosed, errors, wpsub, responseChan, responseClosed,
                 received, wpStopPc, wpCrashed>>

\* for req := range p.requests: a queued request
WPRange(w) ==
  /\ ~wpCrashed
  /\ wppc[w] = "range"
  /\ Len(requests) > 0
  /\ wpreq' = [wpreq EXCEPT ![w] = Head(requests)]
  /\ requests' = Tail(requests)
  /\ wppc' = [wppc EXCEPT ![w] = "select"]
  /\ UNCHANGED <<wpOthers, wpStarted, ctxDone, requestsClosed, doneClosed,
                 errors, wpsub, responseChan, responseClosed, received,
                 wpStopPc, wpCrashed>>

\* for req := range p.requests: closed and empty, the loop ends
WPRangeClosed(w) ==
  /\ ~wpCrashed
  /\ wppc[w] = "range"
  /\ Len(requests) = 0
  /\ requestsClosed
  /\ WPExit(w)
  /\ UNCHANGED <<wpOthers, wpStarted, ctxDone, requests, requestsClosed,
                 errors, wpreq, wpsub, responseChan, responseClosed, received,
                 wpStopPc, wpCrashed>>

\* select, case <-ctx.Done(): return; the dequeued request is dropped
WPSelectDone(w) ==
  /\ ~wpCrashed
  /\ wppc[w] = "select"
  /\ ctxDone
  /\ WPExit(w)
  /\ UNCHANGED <<wpOthers, wpStarted, ctxDone, requests, requestsClosed,
                 errors, wpreq, wpsub, responseChan, responseClosed, received,
                 wpStopPc, wpCrashed>>

\* select, default: taken only when ctx.Done() is not ready
WPSelectDefault(w) ==
  /\ ~wpCrashed
  /\ wppc[w] = "select"
  /\ ~ctxDone
  /\ wppc' = [wppc EXCEPT ![w] = "process"]
  /\ UNCHANGED <<wpOthers, wpStarted, ctxDone, requests, requestsClosed,
                 doneClosed, errors, wpreq, wpsub, responseChan,
                 responseClosed, received, wpStopPc, wpCrashed>>

\* result, err := p.processor.Process(ctx, req.FilePath); a non-nil err is
\* sent on p.errors unless that channel is full
WPProcess(w) ==
  /\ ~wpCrashed
  /\ wppc[w] = "process"
  /\ errors' = IF ProcessFails(wpreq[w]) /\ errors < ErrCap
               THEN errors + 1 ELSE errors
  /\ wppc' = [wppc EXCEPT ![w] = "respond"]
  /\ UNCHANGED <<wpOthers, wpStarted, ctxDone, requests, requestsClosed,
                 doneClosed, wpreq, wpsub, responseChan, responseClosed,
                 received, wpStopPc, wpCrashed>>

\* the response channel made without a buffer: with no receiver waiting the
\* send is not ready and the default branch is taken
WPRespondUnbuffered(w) ==
  /\ ~wpCrashed
  /\ wppc[w] = "respond"
  /\ wpCrashed' = responseClosed[wpreq[w]]
  /\ wppc' = [wppc EXCEPT ![w] = "close"]
  /\ UNCHANGED <<wpOthers, wpStarted, ctxDone, requests, requestsClosed,
                 doneClosed, errors, wpreq, wpsub, responseChan,
                 responseClosed, received, wpStopPc>>

\* select { case req.ResponseChan <- result: default: }: the send is taken
\* when the channel has room, panics when the channel is closed, and the
\* default branch is taken when the buffer is full
WPRespond(w) ==
  /\ ~wpCrashed
  /\ wppc[w] = "respond"
  /\ LET r == wpreq[w]
     IN  /\ wpCrashed' = responseClosed[r]
         /\ responseChan' =
              IF ~responseClosed[r] /\ responseChan[r] < 1
              THEN [responseChan EXCEPT ![r] = @ + 1]
              ELSE responseChan
  /\ wppc' = [wppc EXCEPT ![w] = "close"]
  /\ UNCHANGED <<wpOthers, wpStarted, ctxDone, requests, requestsClosed,
                 doneClosed, errors, wpreq, wpsub, responseClosed, received,
                 wpStopPc>>

\* close(req.ResponseChan): panics when the channel is already closed
WPClose(w) ==
  /\ ~wpCrashed
  /\ wppc[w] = "close"
  /\ wpCrashed' = responseClosed[wpreq[w]]
  /\ responseClosed' = [responseClosed EXCEPT ![wpreq[w]] = TRUE]
  /\ wpreq' = [wpreq EXCEPT ![w] = NoTask]
  /\ wppc' = [wppc EXCEPT ![w] = "range"]
  /\ UNCHANGED <<wpOthers, wpStarted, ctxDone, requests, requestsClosed,
                 doneClosed, errors, wpsub, responseChan, received, wpStopPc>>

\* the submitter receives the result from the channel Submit returned
WPResponseReceive(r) ==
  /\ ~wpCrashed
  /\ wpsub[r] = "ok"
  /\ responseChan[r] > 0
  /\ responseChan' = [responseChan EXCEPT ![r] = @ - 1]
  /\ received' = [received EXCEPT ![r] = @ + 1]
  /\ UNCHANGED <<wpOthers, wpStarted, ctxDone, requests, requestsClosed,
                 doneClosed, errors, wppc, wpreq, wpsub, responseClosed,
                 wpStopPc, wpCrashed>>

\* a reader of Errors() receives one error
WPErrorsReceive ==
  /\ ~wpCrashed
  /\ errors > 0
  /\ errors' = errors - 1
  /\ UNCHANGED <<wpOthers, wpStarted, ctxDone, requests, requestsClosed,
                 doneClosed, wppc, wpreq, wpsub, responseChan, responseClosed,
                 received, wpStopPc, wpCrashed>>

WPWorkerStep(w) ==
  \/ WPRange(w)
  \/ WPRangeClosed(w)
  \/ WPSelectDone(w)
  \/ WPSelectDefault(w)
  \/ WPProcess(w)
  \/ WPRespond(w)
  \/ WPClose(w)

WPSubmitStep(r) ==
  \/ WPSubmitCall(r)
  \/ WPSubmitSend(r)
  \/ WPSubmitPanic(r)
  \/ WPSubmitTimeout(r)

WPNext ==
  \/ WPStart
  \/ WPCancel
  \/ \E r \in Requests : WPSubmitStep(r)
  \/ WPStopClose
  \/ WPStopReturn
  \/ \E w \in WPWorkers : WPWorkerStep(w)
  \/ \E r \in Requests : WPResponseReceive(r)
  \/ WPErrorsReceive

WPSpec == Init /\ [][WPNext]_vars

\* The WorkerPool whose clients make FewRequests Submit calls: fewer than the
\* request queue holds, so no Submit meets a full queue.
WPNextFew ==
  \/ WPStart
  \/ WPCancel
  \/ \E r \in 1 .. FewRequests :
       WPSubmitCall(r) \/ WPSubmitSend(r) \/ WPSubmitPanic(r)
  \/ WPStopClose
  \/ WPStopReturn
  \/ \E w \in WPWorkers : WPWorkerStep(w)
  \/ \E r \in Requests : WPResponseReceive(r)
  \/ WPErrorsReceive

WPFewSpec == Init /\ [][WPNextFew]_vars

\* The scheduler runs every runnable goroutine: the workers once started, a
\* Submit inside its select, Stop waiting on p.done, a submitter receiving from
\* its response channel.  Nothing makes a client call Submit or Stop or cancel
\* the context.
WPSubmitResolve(r) == WPSubmitSend(r) \/ WPSubmitPanic(r) \/ WPSubmitTimeout(r)

WPFairness ==
  /\ WF_vars(WPStart)
  /\ \A r \in Requests : WF_vars(WPSubmitResolve(r))
  /\ WF_vars(WPStopReturn)
  /\ \A w \in WPWorkers : WF_vars(WPWorkerStep(w))
  /\ \A r \in Requests : WF_vars(WPResponseReceive(r))

WPFairSpec == Init /\ [][WPNext]_vars /\ WPFairness

\* ----------------------------------------------- monitor.MetricsCollector
\* (src/unnamed/part_001)
metricsOthers == <<poolVars, statsVars, timeVars, wpVars, orderVars>>

\* time.Duration(a) / time.Duration(b): Go's integer division truncates
\* towards zero
GoDiv(a, b) ==
  IF (a >= 0) = (b > 0) THEN (IF a >= 0 THEN a ELSE -a) \div (IF b > 0 THEN b ELSE -b)
  ELSE -((IF a >= 0 THEN a ELSE -a) \div (IF b > 0 THEN b ELSE -b))

\* a goroutine calls one of the three update methods
MetricsCall(c, op, d) ==
  /\ mpc[c] = "idle"
  /\ mCalls < MaxCalls
  /\ mCalls' = mCalls + 1
  /\ mpc' = [mpc EXCEPT ![c] = op]
  /\ marg' = [marg EXCEPT ![c] = IF op = "D" THEN d ELSE 0]
  /\ UNCHANGED <<metricsOthers, mProcessed, mErrors, mDuration, doneP, doneE,
                 doneD, gmPc, gmProcessed, gmErrors, gmAvg, gmBase>>

\* IncrementProcessed: m.processed.Add(1)
IncrementProcessed(c) ==
  /\ mpc[c] = "P"
  /\ mProcessed' = mProcessed + 1
  /\ mpc' = [mpc EXCEPT ![c] = "retP"]
  /\ UNCHANGED <<metricsOthers, mErrors, mDuration, marg, mCalls, doneP, doneE,
                 doneD, gmPc, gmProcessed, gmErrors, gmAvg, gmBase>>

\* the Add applied to the wrong field: m.processed.Add(1) in IncrementErrors
IncrementErrorsOnProcessed(c) ==
  /\ mpc[c] = "E"
  /\ mProcessed' = mProcessed + 1
  /\ mpc' = [mpc EXCEPT ![c] = "retE"]
  /\ UNCHANGED <<metricsOthers, mErrors, mDuration, marg, mCalls, doneP, doneE,
                 doneD, gmPc, gmProcessed, gmErrors, gmAvg, gmBase>>

\* IncrementErrors: m.errors.Add(1)
IncrementErrors(c) ==
  /\ mpc[c] = "E"
  /\ mErrors' = mErrors + 1
  /\ mpc' = [mpc EXCEPT ![c] = "retE"]
  /\ UNCHANGED <<metricsOthers, mProcessed, mDuration, marg, mCalls, doneP,
                 doneE, doneD, gmPc, gmProcessed, gmErrors, gmAvg, gmBase>>

\* AddDuration: m.duration.Add(int64(d))
AddDuration(c) ==
  /\ mpc[c] = "D"
  /\ mDuration' = mDuration + marg[c]
  /\ mpc' = [mpc EXCEPT ![c] = "retD"]
  /\ UNCHANGED <<metricsOthers, mProcessed, mErrors, marg, mCalls, doneP, doneE,
                 doneD, gmPc, gmProcessed, gmErrors, gmAvg, gmBase>>

\* the update method returns to its caller
MetricsReturn(c) ==
  /\ mpc[c] \in {"retP", "retE", "retD"}
  /\ doneP' = IF mpc[c] = "retP" THEN doneP + 1 ELSE doneP
  /\ doneE' = IF mpc[c] = "retE" THEN doneE + 1 ELSE doneE
  /\ doneD' = IF mpc[c] = "retD" THEN doneD + marg[c] ELSE doneD
  /\ mpc' = [mpc EXCEPT ![c] = "idle"]
  /\ UNCHANGED <<metricsOthers, mProcessed, mErrors, mDuration, marg, mCalls,
                 gmPc, gmProcessed, gmErrors, gmAvg, gmBase>>

\* GetMetrics: processed = m.processed.Load()
GetMetricsLoadProcessed ==
  /\ gmPc \in {"idle", "returned"}
  /\ gmBase' = <<mProcessed, mErrors, mDuration>>
  /\ gmProcessed' = mProcessed
  /\ gmErrors' = 0
  /\ gmAvg' = 0
  /\ gmPc' = "errors"
  /\ UNCHANGED <<metricsOthers, mProcessed, mErrors, mDuration, mpc, marg,
                 mCalls, doneP, doneE, doneD>>

\* GetMetrics: errors = m.errors.Load()
GetMetricsLoadErrors ==
  /\ gmPc = "errors"
  /\ gmErrors' = mErrors
  /\ gmPc' = "duration"
  /\ UNCHANGED <<metricsOthers, mProcessed, mErrors, mDuration, mpc, marg,
                 mCalls, doneP, doneE, doneD, gmProcessed, gmAvg, gmBase>>

\* the average taken without dividing by the count
GetMetricsAverageUndivided ==
  /\ gmPc = "duration"
  /\ gmAvg' = IF gmProcessed > 0 THEN mDuration ELSE 0
  /\ gmPc' = "returned"
  /\ UNCHANGED <<metricsOthers, mProcessed, mErrors, mDuration, mpc, marg,
                 mCalls, doneP, doneE, doneD, gmProcessed, gmErrors, gmBase>>

\* GetMetrics: if processed > 0 { totalDuration := m.duration.Load();
\* avgDuration = time.Duration(totalDuration) / time.Duration(processed) };
\* return
GetMetricsAverage ==
  /\ gmPc = "duration"
  /\ gmAvg' = IF gmProcessed > 0 THEN GoDiv(mDuration, gmProcessed) ELSE 0
  /\ gmPc' = "returned"
  /\ UNCHANGED <<metricsOthers, mProcessed, mErrors, mDuration, mpc, marg,
                 mCalls, doneP, doneE, doneD, gmProcessed, gmErrors, gmBase>>

GetMetricsStep ==
  \/ GetMetricsLoadProcessed
  \/ GetMetricsLoadErrors
  \/ GetMetricsAverage

MetricsNext ==
  \/ \E c \in Callers, op \in {"P", "E", "D"}, d \in Durations :
       MetricsCall(c, op, d)
  \/ \E c \in Callers :
       \/ IncrementProcessed(c)
       \/ IncrementErrors(c)
       \/ AddDuration(c)
       \/ MetricsReturn(c)
  \/ GetMetricsStep

MetricsSpec == Init /\ [][MetricsNext]_vars

\* The pool whose tasks may also raise a fault inside Process().
\* err := task.Process() panics: worker has no recover, the process ends
PoolProcessPanic(w) ==
  /\ ~crashed
  /\ kind = "worker"
  /\ wpc[w] = "process"
  /\ wpc' = [wpc EXCEPT ![w] = "panicked"]
  /\ crashed' = TRUE
  /\ UNCHANGED <<auxVars, kind, started, cancelled, chanVars, wg, wtask, holds,
                 workCount, clientVars, stopPc, consVars>>

NextFault ==
  \/ Next
  \/ \E w \in Workers : PoolProcessPanic(w)

FaultSpec == Init /\ [][NextFault]_vars

\* ------------------------------------------------------------------ claims
Executing == {w \in Workers : wpc[w] = "process"}

AcceptedBeforeStop == {t \in Tasks : sub[t] = "ok"}

Accepted == {t \in Tasks : sub[t] \in {"ok", "okLate"}}

\* C1: once the consumer has read Results() until it was closed, every task
\* accepted before Stop() was invoked has yielded exactly one received result,
\* and nothing else was received: no loss, no duplicate, no invented value.
C1_ExactlyNResults ==
  cons = "closed" =>
    /\ \A t \in AcceptedBeforeStop : recvCount[t] = 1
    /\ \A t \in Tasks : recvCount[t] <= (IF t \in Accepted THEN 1 ELSE 0)
    /\ recvCount[NilTask] = 0

\* C2: a Submit called after Stop() has returned does not block (the
\* cancellation case is ready) and ends with an error: it neither enqueues
\* the task nor panics.
C2_SubmitAfterStopFails ==
  \A t \in Tasks :
    calledAfterStop[t] =>
      /\ sub[t] \in {"select", "err"}
      /\ sub[t] = "select" => cancelled

\* C3: a Submit that had not enqueued its task when Stop() fired the
\* cancellation never returns nil and never panics.
C3_PendingSubmitFails ==
  \A t \in Tasks : sub[t] \notin {"okLate", "panic"}

\* C4: once Stop() is called it eventually returns, the consumer draining
\* Results() and the scheduling being fair.
C4_StopEventuallyReturns ==
  (stopPc # "idle") ~> (stopPc = "done")

\* C5: a worker that is about to publish a result can always take its step:
\* publishing never waits for room in the results channel.
C5_PublishNeverBlocks ==
  ~crashed =>
    \A w \in Workers :
      wpc[w] = "send" => ENABLED (StatefulSend(w) \/ PoolSend(w))

\* C6: when Stop() is past wg.Wait() (all workers have exited) the inbound
\* queue holds no task.
C6_StopLeavesNoQueuedTask ==
  stopPc \in {"closeResults", "done"} => Len(tasks) = 0

\* C7: in worker.Pool no worker returns with a dequeued task it has not
\* executed.
C7_DequeuedTaskExecuted ==
  kind = "worker" =>
    \A w \in Workers : wpc[w] = "exited" => wtask[w] = NoTask

\* C8: in StatefulPool no value comes out of the closed, empty inbound queue
\* to be processed as a task, and no task is received twice.
C8_NoPhantomResult ==
  kind = "stateful" =>
    /\ PhantomCount = 0
    /\ \A t \in Tasks : recvCount[t] <= 1

\* C9: in a pool on which Stop() is not invoked, with a consumer that keeps
\* receiving, every accepted task eventually yields its one result, and at no
\* time has a task yielded more than one result or a result without having
\* been accepted.
C9_AcceptedTaskYieldsOneResult ==
  /\ [](/\ \A t \in Tasks : recvCount[t] <= (IF sub[t] = "ok" THEN 1 ELSE 0)
        /\ recvCount[NilTask] = 0)
  /\ \A t \in Tasks : (sub[t] = "ok") ~> (recvCount[t] = 1)

C9_Witness ==
  /\ stopPc = "idle"
  /\ \A t \in Tasks : sub[t] = "ok" /\ recvCount[t] = 1

\* C10: the workers executing a task are at most as many as the permits out
\* of the rate limiter (so at most R = NumWorkers), and each of them holds a
\* permit it took from the rate limiter.
C10_ExecutingHoldPermit ==
  /\ Cardinality(Executing) <= NumWorkers
  /\ Cardinality(Executing) + rateLimiter <= NumWorkers
  /\ \A w \in Executing : holds[w]

C10_Witness ==
  /\ Cardinality(Executing) = NumWorkers
  /\ rateLimiter = 0
  /\ \E w \in Executing : wtask[w] \in Tasks

PermitsHeld == Cardinality({w \in Workers : holds[w]})

\* C11: the permits in the rateLimiter channel plus the permits workers took
\* and have not sent back are always N; the channel never holds more than N
\* and a worker returning its permit always finds room.
C11_PermitsConserved ==
  /\ rateLimiter + PermitsHeld = NumWorkers
  /\ rateLimiter <= NumWorkers
  /\ \A w \in Workers : wpc[w] = "release" => rateLimiter < NumWorkers

C11_Witness ==
  /\ \E w \in Workers : wpc[w] = "release"
  /\ \E w \in Workers : wpc[w] \in {"outer", "range"}
  /\ rateLimiter = NumWorkers - 1

\* C12: a worker that has exited holds no permit, and once Stop() is past
\* wg.Wait() the rateLimiter channel holds all N permits again.
C12_PermitsReturned ==
  /\ \A w \in Workers : wpc[w] = "exited" => ~holds[w]
  /\ stopPc \in {"closeResults", "done"} => rateLimiter = NumWorkers

\* C14: the results channel is closed only when every worker has exited, and
\* the only panics are those of Submit: no worker sends on the closed channel.
C14_ResultsClosedAfterWorkers ==
  /\ resultsClosed => \A w \in Workers : wpc[w] = "exited"
  /\ crashed => \E t \in Tasks : sub[t] = "panic"

C14_Witness ==
  /\ resultsClosed
  /\ \E t \in Tasks : recvCount[t] = 1

\* C16: in worker.Pool a worker whose task failed goes from Process() to the
\* publish, sends that task's error on results, returns its permit and goes
\* back to the range loop; none of these steps ends the worker, panics or
\* moves Stop().
C16_TaskErrorIsResult ==
  [][\A w \in Workers :
       (/\ kind = "worker"
        /\ wpc[w] \in {"process", "send", "release"}
        /\ wtask[w] \in Tasks
        /\ Fails(wtask[w])
        /\ wpc'[w] # wpc[w])
       => /\ wpc[w] = "process" => wpc'[w] = "send" /\ wtask'[w] = wtask[w]
          /\ wpc[w] = "send" =>
               /\ wpc'[w] = "release"
               /\ results' = Append(results, [task |-> wtask[w], err |-> TRUE])
          /\ wpc[w] = "release" =>
               /\ wpc'[w] = "range"
               /\ rateLimiter' = rateLimiter + 1
          /\ stopPc' = stopPc
          /\ ~crashed']_vars

C16_Witness ==
  /\ kind = "worker"
  /\ \E t \in Tasks : Fails(t) /\ recvCount[t] = 1
  /\ \A w \in Workers : wpc[w] = "range"
  /\ rateLimiter = NumWorkers

\* C17: with no Submit ever called, once Stop() has returned the results
\* channel is empty and the consumer has received nothing.
C17_StopWithoutTasks ==
  (stopPc = "done" /\ \A t \in Tasks : sub[t] = "idle") =>
    /\ Len(results) = 0
    /\ \A v \in {NilTask} \cup Tasks : recvCount[v] = 0

\* C18: in StatefulPool, if a task was accepted before Stop() was invoked,
\* then once Stop() has returned some task's result has been published.
C18_SomeResultAfterStop ==
  (kind = "stateful" /\ stopPc = "done" /\ AcceptedBeforeStop # {}) =>
    \E t \in Tasks :
      \/ recvCount[t] > 0
      \/ \E i \in 1 .. Len(results) : results[i].task = t

\* C15: in worker.Pool a fault raised inside task.Process() does not end the
\* process: the worker in which it was raised lives on to publish a failed
\* result.
C15_FaultBecomesFailedResult ==
  \A w \in Workers : wpc[w] = "panicked" => ~crashed

RECURSIVE SumWorkCount(_)
SumWorkCount(entries) ==
  IF entries = <<>> THEN 0
  ELSE Head(entries).WorkCount + SumWorkCount(Tail(entries))

\* C13: in StatefulPool, when GetWorkerStats() is called after the consumer has
\* received the results of all N accepted tasks, Stop() has not been invoked
\* and no further task is accepted while it runs, the WorkCount entries it
\* returns sum to N; so do the workers' WorkCount fields themselves at any such
\* moment.
C13_WorkCountSumIsResults ==
  /\ (/\ kind = "stateful"
      /\ statsPc = "returned"
      /\ statsN >= 0
      /\ Cardinality(Accepted) = statsN)
       => SumWorkCount(stats) = statsN
  /\ (/\ kind = "stateful"
      /\ stopPc = "idle"
      /\ \A t \in Accepted : recvCount[t] > 0)
       => SumWorkCount([i \in 1 .. NumWorkers |-> [WorkCount |-> workCount[i - 1]]])
            = Cardinality(Accepted)

C13_Witness ==
  /\ kind = "stateful"
  /\ statsPc = "returned"
  /\ statsN = MaxTasks
  /\ SumWorkCount(stats) = MaxTasks
  /\ \E i \in 1 .. NumWorkers : stats[i].WorkCount = 1

\* C19: in StatefulPool the rateLimit interval throttles execution: a worker
\* takes its next task no sooner than one rateLimit interval after it took the
\* previous one, also when processing a task takes less than the interval.
C19_RateLimitThrottles ==
  [][\A w \in Workers :
       (lastWork[w] >= 0 /\ lastWork'[w] # lastWork[w])
         => lastWork'[w] >= lastWork[w] + RateLimitTicks]_vars

\* C20: in processor.WorkerPool, when Stop() has returned every worker
\* goroutine has exited: none still holds a request or can dequeue another.
C20_StopWaitsForAllWorkers ==
  wpStopPc = "done" => \A w \in WPWorkers : wppc[w] = "exited"

\* C21: in processor.WorkerPool every request accepted by Submit eventually
\* has one result delivered on its response channel and that channel closed,
\* also when the context is cancelled or Stop() is called meanwhile (a panic
\* that ends the whole process apart).
C21_AcceptedRequestAnswered ==
  \A r \in Requests :
    (wpsub[r] = "ok")
      ~> ((responseClosed[r] /\ responseChan[r] + received[r] = 1) \/ wpCrashed)

C23_BlockedWorkersExit ==
  /\ \A w \in Workers :
       (cancelled /\ wpc[w] \in {"outer", "inner", "range", "select"})
         ~> (wpc[w] = "exited")
  /\ [][cancelled => cancelled']_vars

\* Callers that have done their atomic Add and not yet returned.
Returning(op) == {c \in Callers : mpc[c] = op}

RECURSIVE SumArg(_)
SumArg(S) ==
  IF S = {} THEN 0
  ELSE LET c == CHOOSE x \in S : TRUE IN marg[c] + SumArg(S \ {c})

\* C24: GetMetrics returns processed and errors as loaded and avgDuration =
\* (sum of the durations passed to AddDuration) / processed in integer
\* division, 0 when processed = 0 (stated against the completed calls when no
\* update ran between its loads); it changes none of the counters.
C24_GetMetricsAverage ==
  /\ [](gmPc = "returned" =>
          /\ gmProcessed <= mProcessed
          /\ gmErrors <= mErrors
          /\ gmProcessed = 0 => gmAvg = 0
          /\ (/\ gmBase = <<mProcessed, mErrors, mDuration>>
              /\ \A c \in Callers : mpc[c] \notin {"retP", "retE", "retD"})
               => /\ gmProcessed = doneP
                  /\ gmErrors = doneE
                  /\ gmAvg = IF doneP > 0 THEN doneD \div doneP ELSE 0)
  /\ [][gmPc' # gmPc => UNCHANGED <<mProcessed, mErrors, mDuration>>]_vars

C24_Witness ==
  /\ gmPc = "returned"
  /\ gmBase = <<mProcessed, mErrors, mDuration>>
  /\ \A c \in Callers : mpc[c] = "idle"
  /\ gmProcessed = 2
  /\ doneD = 1
  /\ gmAvg = 0

RECURSIVE ResultsOf(_)
ResultsOf(S) ==
  IF S = {} THEN 0
  ELSE LET t == CHOOSE x \in S : TRUE
       IN  recvCount[t]
           + Cardinality({i \in 1 .. Len(results) : results[i].task = t})
           + ResultsOf(S \ {t})

\* C26: a pool worker updates the MetricsCollector for every task it executes:
\* whenever no worker is between executing a task and releasing its permit,
\* the processed counter is the number of results produced and the errors
\* counter the number of failed ones.
C26_WorkersUpdateMetrics ==
  (\A w \in Workers : wpc[w] \notin {"process", "send", "release"})
    => /\ mProcessed = ResultsOf({NilTask} \cup Tasks)
       /\ mErrors = IF kind = "worker"
                    THEN ResultsOf({t \in Tasks : Fails(t)})
                    ELSE 0

\* C27: in StatefulPool GetWorkerStats() returns one entry per worker, entry i
\* with ID i; worker i's WorkCount changes only in a step of worker i that
\* picks up a task, and then grows by exactly 1: it never decreases and no
\* step of Submit, Stop, GetWorkerStats or another worker changes it.
C27_WorkCountOwnedByWorker ==
  /\ [](statsPc = "returned" =>
          /\ Len(stats) = NumWorkers
          /\ \A i \in 1 .. NumWorkers : stats[i].ID = i - 1)
  /\ [][\A w \in Workers :
          /\ workCount'[w] # workCount[w]
               => /\ workCount'[w] = workCount[w] + 1
                  /\ wpc[w] = "inner"
                  /\ wpc'[w] = "process"
                  /\ wtask'[w] \in Tasks
          /\ (wpc[w] = "inner" /\ wpc'[w] = "process")
               => workCount'[w] = workCount[w] + 1]_vars

InQueue(t) == \E i \in 1 .. Len(tasks) : tasks[i] = t

QueuePos(t) == CHOOSE i \in 1 .. Len(tasks) : tasks[i] = t

\* C28: tasks leave the inbound queue in submission order: when Submit(a)
\* returned nil before Submit(b) was called, a is ahead of b while both are
\* queued, and b has left the queue only if a has left it before.
C28_DequeuedInSubmissionOrder ==
  \A a \in Tasks, b \in Accepted :
    a \in returnedBefore[b]
      => /\ (InQueue(a) /\ InQueue(b)) => QueuePos(a) < QueuePos(b)
         /\ ~InQueue(b) => ~InQueue(a)

C28_Witness ==
  /\ 1 \in returnedBefore[2]
  /\ \E w, v \in Workers :
       w # v /\ wtask[w] = 1 /\ wtask[v] = 2 /\ wpc[w] = "process"

\* Where task t is: queued, with a worker that has not yet published its
\* result, in the results channel, or received by the consumer.
Occurrences(t) ==
  Cardinality({i \in 1 .. Len(tasks) : tasks[i] = t})
  + Cardinality({w \in Workers : wtask[w] = t /\ wpc[w] # "release"})
  + recvCount[t]
  + Cardinality({i \in 1 .. Len(results) : results[i].task = t})

\* C29: each accepted task is dequeued by at most one worker: no two workers
\* hold the same task, and a task is in one place only (queued, with one
\* worker, or turned into one result), so none is executed twice.
C29_TaskDequeuedOnce ==
  /\ \A w, v \in Workers :
       (w # v /\ wtask[w] \in Tasks) => wtask[w] # wtask[v]
  /\ \A t \in Tasks :
       LET n == Occurrences(t)
       IN  n <= 1 /\ (t \in Accepted => n = 1)

C29_Witness ==
  /\ \A w \in Workers : wpc[w] = "process" /\ wtask[w] \in Tasks
  /\ \A t \in Tasks : Occurrences(t) = 1

\* C30: Submit leaves its select only by enqueuing the task, which takes room
\* in the inbound queue, or once cancellation has fired; it returns nil only
\* with the task put at the tail of the queue; neither queue ever holds more
\* than queueSize elements.
C30_SubmitBlocksOnFullQueue ==
  /\ [](Len(tasks) <= queueSize /\ Len(results) <= queueSize)
  /\ [][\A t \in Tasks :
          (sub[t] = "select" /\ sub'[t] # "select")
            => \/ /\ sub'[t] \in {"ok", "okLate"}
                  /\ Len(tasks) < queueSize
                  /\ tasks' = Append(tasks, t)
               \/ /\ sub'[t] \in {"err", "panic"}
                  /\ cancelled]_vars

C30_Witness ==
  /\ ~cancelled
  /\ Len(tasks) = queueSize
  /\ sub[1] = "ok"
  /\ sub[2] = "select"
  /\ ~ENABLED SubmitResolve(2)

\* C31: in worker.Pool GetStats() reports as CompletedTasks the number of
\* results produced so far (in the results channel or already received) and as
\* QueuedTasks the number of tasks waiting in the inbound queue, each as of the
\* moment the field is read, and no step of GetStats changes the pool.
C31_GetStatsCounts ==
  [][(kind = "worker" /\ statsPc' # statsPc)
       => /\ UNCHANGED poolVars
          /\ statsPc' = "completed" => stats'.QueuedTasks = Len(tasks)
          /\ statsPc' = "returned"
               => stats'.CompletedTasks = ResultsOf({NilTask} \cup Tasks)]_vars

\* C32: in processor.WorkerPool a Submit leaves its select either with the
\* request appended to the queue, which had room (it returns the response
\* channel and a nil error), or with the timeout error, the queue being full;
\* it never panics, also when the request queue has been closed by Stop().
C32_SubmitNeverPanics ==
  [][\A r \in Requests :
       (wpsub[r] = "select" /\ wpsub'[r] # "select")
         => \/ /\ wpsub'[r] = "ok"
               /\ Len(requests) < ReqCap
               /\ requests' = Append(requests, r)
               /\ ~wpCrashed'
            \/ /\ wpsub'[r] = "timeout"
               /\ Len(requests) = ReqCap
               /\ UNCHANGED requests
               /\ ~wpCrashed']_vars

\* Workers that have not exited and hold no permit.
LiveWithoutPermit == {w \in Workers : wpc[w] # "exited" /\ ~holds[w]}

RECURSIVE SumOver(_, _)
SumOver(f, S) ==
  IF S = {} THEN 0
  ELSE LET x == CHOOSE y \in S : TRUE IN f[x] + SumOver(f, S \ {x})

\* C34: in StatefulPool, whenever all workers have exited, the WorkCount
\* fields of the workers sum to the number of values sent on the results
\* channel (still in it or received), whatever interleaving of Submit, Stop
\* and worker steps occurred; and a worker exits only from one of its two
\* selects, never between WorkCount++ and the send of the result.
C34_WorkCountSumIsSent ==
  /\ [](( /\ kind = "stateful"
           /\ \A w \in Workers : wpc[w] = "exited")
          => SumOver(workCount, Workers) = ResultsOf({NilTask} \cup Tasks))
  /\ [][\A w \in Workers :
          (kind = "stateful" /\ wpc[w] # "exited" /\ wpc'[w] = "exited")
            => wpc[w] \in {"outer", "inner"}]_vars

C34_Witness ==
  /\ kind = "stateful"
  /\ stopPc = "done"
  /\ \A w \in Workers : wpc[w] = "exited"
  /\ SumOver(workCount, Workers) = 2
  /\ recvCount[NilTask] = 1


\* The pool has taken in all it can without a receiver: both queues are full
\* and every worker waits to publish a result.
BacklogFull ==
  /\ Len(tasks) = queueSize
  /\ Len(results) = queueSize
  /\ \A w \in Workers : wpc[w] = "send"

\* C35: a single client that submits n tasks before it starts receiving: its
\* first 2Q + W Submit calls all return nil (so all n do when n <= 2Q + W),
\* and its (2Q + W + 1)-th never returns: from some moment on the call sits in
\* its select for good, the inbound queue full and every worker blocked on the
\* full results queue.
C35_BacklogCapacity ==
  /\ <>(\A t \in DOMAIN sub : t <= BacklogCap => sub[t] = "ok")
  /\ [](\A t \in DOMAIN sub : t > BacklogCap => sub[t] # "ok")
  /\ <>[](Len(sub) > BacklogCap
            => (sub[MaxBacklog] = "select" /\ BacklogFull))

C35_Witness ==
  /\ Len(sub) = MaxBacklog
  /\ sub[MaxBacklog] = "select"
  /\ BacklogFull
  /\ \A t \in 1 .. BacklogCap : sub[t] = "ok"


\* Workers that have dequeued request r and not yet closed its channel.
WPHolders(r) == {w \in WPWorkers : wpreq[w] = r /\ wppc[w] # "exited"}

\* C36: in processor.WorkerPool a request is with at most one worker; the
\* worker that processed it finds its response channel open and empty at the
\* send and open, with that one result in it or received, at the close; a
\* response channel is closed only by the worker that dequeued its request,
\* once, and then carries exactly one result; the only panic is that of Submit:
\* no send on a closed response channel and no double close.
C36_OneResultOneClose ==
  /\ [](/\ \A r \in Requests : Cardinality(WPHolders(r)) <= 1
        /\ \A w \in WPWorkers :
             /\ wppc[w] = "respond"
                  => (~responseClosed[wpreq[w]]
                      /\ responseChan[wpreq[w]] + received[wpreq[w]] = 0)
             /\ wppc[w] = "close"
                  => (~responseClosed[wpreq[w]]
                      /\ responseChan[wpreq[w]] + received[wpreq[w]] = 1)
        /\ \A r \in Requests :
             responseClosed[r]
               => (responseChan[r] + received[r] = 1 /\ WPHolders(r) = {})
        /\ wpCrashed => \E r \in Requests : wpsub[r] = "panic")
  /\ [][\A r \in Requests :
          /\ responseClosed[r] => responseClosed'[r]
          /\ (~responseClosed[r] /\ responseClosed'[r])
               => \E w \in WPWorkers :
                    wpreq[w] = r /\ wppc[w] = "close" /\ wppc'[w] = "range"
          /\ responseChan'[r] > responseChan[r]
               => \E w \in WPWorkers :
                    wpreq[w] = r /\ wppc[w] = "respond" /\ wppc'[w] = "close"]_vars

C36_Witness ==
  /\ \E r \in Requests : responseClosed[r] /\ received[r] = 1
  /\ \E w \in WPWorkers : wppc[w] = "close" /\ responseChan[wpreq[w]] = 1
  /\ ~wpCrashed


\* C37: Stop() is single-shot.  The first call fires the cancellation, closes
\* the inbound queue, waits until every worker has exited and closes results,
\* in this order; a second call fires the cancellation again, which changes
\* nothing, and then panics on closing the closed inbound queue: it never
\* returns normally.
C37_StopIsSingleShot ==
  /\ [][stopPc' # stopPc
          => \/ /\ stopPc = "idle" /\ stopPc' = "cancel"
                /\ cancelled'
                /\ UNCHANGED <<tasksClosed, resultsClosed>>
             \/ /\ stopPc = "cancel" /\ stopPc' = "wait"
                /\ ~tasksClosed /\ tasksClosed'
                /\ UNCHANGED <<cancelled, resultsClosed>>
             \/ /\ stopPc = "wait" /\ stopPc' = "closeResults"
                /\ \A w \in Workers : wpc[w] = "exited"
                /\ UNCHANGED <<cancelled, tasksClosed, resultsClosed>>
             \/ /\ stopPc = "closeResults" /\ stopPc' = "done"
                /\ ~resultsClosed /\ resultsClosed'
                /\ UNCHANGED <<cancelled, tasksClosed>>
             \/ /\ stopPc = "done" /\ stopPc' = "cancel2"
                /\ UNCHANGED <<cancelled, tasksClosed, resultsClosed, crashed>>
             \/ /\ stopPc = "cancel2" /\ stopPc' = "panic"
                /\ crashed']_vars
  /\ [](stopPc \in {"cancel2", "panic"}
          => (cancelled /\ tasksClosed /\ resultsClosed))
  /\ [](stopPc = "panic" => crashed)

C37_Witness ==
  /\ stopPc = "panic"
  /\ crashed
  /\ cons = "closed"
  /\ \E t \in Tasks : recvCount[t] = 1
====
